---- MODULE Spec2Model ----
(***************************************************************************)
(* Model of download_fallback_images.py: ensure_directory, download_image  *)
(* and main, run against a filesystem and an HTTP server that may fail.    *)
(*                                                                         *)
(* The program is single-threaded; pc is the position of the one thread.   *)
(* The environment (the server's answer, the filesystem's refusal of an    *)
(* open or a write, the directory found at start, a standard output that   *)
(* refuses a line) is chosen with \E.                                      *)
(***************************************************************************)
EXTENDS Integers, Sequences, FiniteSets

VARIABLES
    pc,             \* position of the thread in main / download_image
    dirState,       \* what is at public/images/fallbacks on disk
    files,          \* local_path -> <<>> (no file) or <<content>>
    idx,            \* 1-based position of the for loop in images
    success_count,  \* main's local success_count
    total_count,    \* main's local total_count
    response,       \* <<>> or <<status>>: the response of the latest call
    received,       \* chunks iter_content has yielded in the call in progress
    flushed,        \* how many of them have reached the disk in full
    ret,            \* value download_image returned to main
    summary,        \* <<>> or <<s, t>>: text "Download complete: s/t" written by print
    exit_code,      \* <<>> while running, <<status>> once the process ended
    \* history of the current run, read only by the properties
    calls,          \* indices of the descriptors download_image was invoked for
    returns,        \* number of download_image calls that returned to main
    nTrue,          \* number of download_image calls that returned True
    nFalse,         \* number of download_image calls that returned False
    failLogs,       \* number of "Failed to download" texts written by print
    ensureCalls,    \* number of ensure_directory calls
    ensureRaised,   \* ensure_directory raised in this run
    failedAt,       \* where the call in progress failed, or "none"
    overwrote,      \* the open just made found a non-empty file
    propagated,     \* the function an uncaught exception came out of, or "none"
    prior           \* an earlier run of the script has ended

vars == <<pc, dirState, files, idx, success_count, total_count, response,
          received, flushed, ret, summary, exit_code, calls, returns, nTrue,
          nFalse, failLogs, ensureCalls, ensureRaised, failedAt, overwrote,
          propagated, prior>>

(* ------------------------------ bounds -------------------------------- *)

\* most chunks one response body is split into
MaxChunks == 2

(* --------------------------- program data ----------------------------- *)

images_to_download ==
    << [url |-> "https://images.unsplash.com/photo-1489515217757-5fd1be406fef?auto=format&fit=crop&w=800&q=80",
        local_path |-> "public/images/fallbacks/attraction-fallback.jpg",
        description |-> "Fallback attraction image"],
       [url |-> "https://images.unsplash.com/photo-1467269204594-9661b134dd2b?auto=format&fit=crop&w=1600&q=80",
        local_path |-> "public/images/fallbacks/city-fallback.jpg",
        description |-> "Fallback city image"],
       [url |-> "https://images.unsplash.com/photo-1489515217757-5fd1be406fef?auto=format&fit=crop&w=1200&q=80",
        local_path |-> "public/images/fallbacks/hero-fallback.jpg",
        description |-> "Fallback hero image"],
       [url |-> "https://images.unsplash.com/photo-1488646953014-85cb44e25828?auto=format&fit=crop&w=1200&q=80",
        local_path |-> "public/images/fallbacks/seo-default.jpg",
        description |-> "SEO default meta image"],
       [url |-> "https://images.unsplash.com/photo-1469854523086-cc02fe5d8800?auto=format&fit=crop&w=1200&q=80",
        local_path |-> "public/images/fallbacks/about-page.jpg",
        description |-> "About page image"] >>

Paths == { images_to_download[i].local_path : i \in 1..Len(images_to_download) }

(* ---------------------------- environment ----------------------------- *)

\* What can be at the destination path when the script starts: nothing
\* under a parent that allows creation, nothing under a parent that does
\* not, a directory, or a regular file.
DirStates == {"absent", "absent_readonly", "dir", "file"}

\* Status codes the server answers with.
StatusCodes == {200, 404, 500}

\* The pieces iter_content yields; a body is a sequence of them.
Chunks == {"a"}

Absent == << >>
File(content) == << content >>
Content(f) == f[1]

\* A file cut inside a chunk: it holds some whole chunks of a body and a
\* part of the next one; how many is not kept.
Torn == File(<<"torn">>)

\* The file the current download_image call writes.
local_path == images_to_download[idx].local_path

(* --------------------------- standard output -------------------------- *)

\* lines 89-90, the end of the process: the interpreter flushes sys.stdout
\* and sys.stderr before it exits; when a flush fails (broken pipe, full
\* device) the process ends with status 120 whatever status it was about to
\* end with.
exit_status(code, flush_ok) == IF flush_ok THEN code ELSE 120

\* An exception where no handler is in reach (os.makedirs at line 64, or a
\* print that raised because the stream refused the text or cannot encode
\* it): the interpreter writes the traceback to standard error and the
\* process ends with status 1, or 120 when the flush of standard output or
\* standard error at exit fails.
uncaught(who) ==
    /\ pc' = "crashed"
    /\ propagated' = who
    /\ \E flush_ok \in BOOLEAN : exit_code' = <<exit_status(1, flush_ok)>>

(* ------------------------- ensure_directory --------------------------- *)

\* Variant of makedirs_raises: os.makedirs(path) without exist_ok, which
\* raises FileExistsError for a directory that is already there.
makedirs_raises_no_exist_ok(d) == d \in {"absent_readonly", "file", "dir"}

\* os.makedirs(path, exist_ok=True) raises when the path cannot be created
\* or exists and is no directory; an existing directory is accepted.
makedirs_raises(d) == d \in {"absent_readonly", "file"}

\* The directory state os.makedirs leaves when it does not raise.
makedirs_result(d) == IF d = "absent" THEN "dir" ELSE d

\* Variant of ensure_directory: the error of os.makedirs is swallowed and
\* main goes on.
ensure_directory_swallow ==
    /\ pc = "ensure"
    /\ ensureCalls' = ensureCalls + 1
    /\ pc' = "setup"
    /\ IF makedirs_raises(dirState)
          THEN /\ ensureRaised' = TRUE
               /\ UNCHANGED dirState
          ELSE /\ dirState' = makedirs_result(dirState)
               /\ UNCHANGED ensureRaised
    /\ UNCHANGED <<files, idx, success_count, total_count, response,
                   received, flushed, ret, summary, exit_code, calls,
                   returns, nTrue, nFalse, failLogs, failedAt, overwrote,
                   propagated, prior>>

\* main line 64: ensure_directory('public/images/fallbacks'); an exception
\* is not caught anywhere and ends the process with a traceback.
ensure_directory ==
    /\ pc = "ensure"
    /\ ensureCalls' = ensureCalls + 1
    /\ IF makedirs_raises(dirState)
          THEN /\ uncaught("ensure_directory")
               /\ ensureRaised' = TRUE
               /\ UNCHANGED dirState
          ELSE /\ pc' = "setup"
               /\ dirState' = makedirs_result(dirState)
               /\ UNCHANGED <<exit_code, ensureRaised, propagated>>
    /\ UNCHANGED <<files, idx, success_count, total_count, response,
                   received, flushed, ret, summary, calls, returns, nTrue,
                   nFalse, failLogs, failedAt, overwrote, prior>>

(* ------------------------------- main --------------------------------- *)

\* main lines 66-69: print "Starting download of fallback images...", which
\* may raise; then success_count = 0; total_count = len(images_to_download)
main_setup ==
    /\ pc = "setup"
    /\ \/ /\ success_count' = 0
          /\ total_count' = Len(images_to_download)
          /\ idx' = 1
          /\ pc' = "loop"
          /\ UNCHANGED <<exit_code, propagated>>
       \/ /\ uncaught("main")
          /\ UNCHANGED <<success_count, total_count, idx>>
    /\ UNCHANGED <<dirState, files, response, received, flushed, ret,
                   summary, calls, returns, nTrue, nFalse, failLogs,
                   ensureCalls, ensureRaised, failedAt, overwrote, prior>>

\* main lines 71-73: the for loop takes the next descriptor, prints its
\* description (line 72, which may raise before anything is called) and
\* calls download_image(image_info['url'], image_info['local_path']).
main_for_next ==
    /\ pc = "loop"
    /\ idx <= Len(images_to_download)
    /\ \/ /\ calls' = Append(calls, idx)
          /\ response' = << >>
          /\ pc' = "dl_get"
          /\ UNCHANGED <<exit_code, propagated>>
       \/ /\ uncaught("main")
          /\ UNCHANGED <<calls, response>>
    /\ UNCHANGED <<failedAt, overwrote, dirState, files, idx,
                   success_count, total_count, received, flushed, ret,
                   summary, returns, nTrue, nFalse, failLogs, ensureCalls,
                   ensureRaised, prior>>

\* main line 71: the list is exhausted, the loop ends.
main_for_end ==
    /\ pc = "loop"
    /\ idx > Len(images_to_download)
    /\ pc' = "summary"
    /\ UNCHANGED <<dirState, files, idx, success_count, total_count,
                   response, received, flushed, ret, summary, exit_code,
                   calls, returns, nTrue, nFalse, failLogs, ensureCalls,
                   ensureRaised, failedAt, overwrote, propagated, prior>>

\* Variant of main_count: a failed download is tried again.
main_count_retry ==
    /\ pc = "returned"
    /\ success_count' = IF ret THEN success_count + 1 ELSE success_count
    /\ returns' = returns + 1
    /\ ret' = FALSE
    /\ failedAt' = "none"
    /\ \/ /\ idx' = IF ret THEN idx + 1 ELSE idx
          /\ pc' = "loop"
          /\ UNCHANGED <<exit_code, propagated>>
       \/ /\ uncaught("main")
          /\ UNCHANGED idx
    /\ UNCHANGED <<response, received, flushed, overwrote, dirState, files,
                   total_count, summary, calls, nTrue, nFalse, failLogs,
                   ensureCalls, ensureRaised, prior>>

\* main lines 73-75: if download_image(...): success_count += 1; then the
\* empty line is printed (line 75, which may raise) and the loop moves on,
\* whatever was returned.
main_count ==
    /\ pc = "returned"
    /\ success_count' = IF ret THEN success_count + 1 ELSE success_count
    /\ returns' = returns + 1
    /\ ret' = FALSE
    /\ failedAt' = "none"
    /\ \/ /\ idx' = idx + 1
          /\ pc' = "loop"
          /\ UNCHANGED <<exit_code, propagated>>
       \/ /\ uncaught("main")
          /\ UNCHANGED idx
    /\ UNCHANGED <<response, received, flushed, overwrote, dirState, files,
                   total_count, summary, calls, nTrue, nFalse, failLogs,
                   ensureCalls, ensureRaised, prior>>

\* main line 77: print "Download complete: {success_count}/{total_count} ...".
\* print writes the text and then the end of line: when it raises, the run
\* ends there, with the text written in full (the end of line was refused)
\* or not.
main_summary ==
    /\ pc = "summary"
    /\ \/ /\ summary' = <<success_count, total_count>>
          /\ pc' = "branch"
          /\ UNCHANGED <<exit_code, propagated>>
       \/ /\ uncaught("main")
          /\ \E text_written \in BOOLEAN :
                summary' = IF text_written
                              THEN <<success_count, total_count>>
                              ELSE summary
    /\ UNCHANGED <<dirState, files, idx, success_count, total_count,
                   response, received, flushed, ret, calls, returns, nTrue,
                   nFalse, failLogs, ensureCalls, ensureRaised, failedAt,
                   overwrote, prior>>

\* main lines 79-87: after the closing messages main falls off the end
\* (status 0) when success_count == total_count and calls sys.exit(1)
\* otherwise; a closing message that raises ends the run as any uncaught
\* exception does.
main_exit ==
    /\ pc = "branch"
    /\ \/ /\ pc' = "done"
          /\ \E flush_ok \in BOOLEAN :
                exit_code' =
                    <<exit_status(IF success_count = total_count THEN 0 ELSE 1,
                                  flush_ok)>>
          /\ UNCHANGED propagated
       \/ uncaught("main")
    /\ UNCHANGED <<dirState, files, idx, success_count, total_count,
                   response, received, flushed, ret, summary, calls, returns,
                   nTrue, nFalse, failLogs, ensureCalls, ensureRaised,
                   failedAt, overwrote, prior>>

(* --------------------------- download_image --------------------------- *)

\* Variant of open_wb: the file is opened in append mode ('ab'), which keeps
\* what an existing file holds.
open_wb_append(f) == IF f = Absent THEN File(<< >>) ELSE f

\* What open(local_path, 'wb') leaves at the path: mode 'w' creates the file
\* or truncates the one that is there.
open_wb(f) == File(<< >>)

\* Variant of dl_get: local_path is opened for writing before the request
\* is made.
dl_get_open_first ==
    /\ pc = "dl_get"
    /\ files' = [files EXCEPT ![local_path] = open_wb(files[local_path])]
    /\ \/ /\ pc' = "dl_except"
          /\ failedAt' = "print_downloading"
          /\ UNCHANGED response
       \/ /\ pc' = "dl_except"
          /\ failedAt' = "get"
          /\ UNCHANGED response
       \/ \E s \in StatusCodes :
             /\ response' = <<s>>
             /\ pc' = "dl_status"
             /\ UNCHANGED failedAt
    /\ UNCHANGED <<dirState, idx, success_count, total_count, received,
                   flushed, ret, summary, exit_code, calls, returns, nTrue,
                   nFalse, failLogs, ensureCalls, ensureRaised, overwrote,
                   propagated, prior>>

\* lines 18-20: print "Downloading: {url}" raises inside the try block; or
\* requests.get(url, stream=True) raises (DNS, connection, TLS...) or
\* returns a response carrying a status; the body is not read yet.
dl_get ==
    /\ pc = "dl_get"
    /\ \/ /\ pc' = "dl_except"
          /\ failedAt' = "print_downloading"
          /\ UNCHANGED response
       \/ /\ pc' = "dl_except"
          /\ failedAt' = "get"
          /\ UNCHANGED response
       \/ \E s \in StatusCodes :
             /\ response' = <<s>>
             /\ pc' = "dl_status"
             /\ UNCHANGED failedAt
    /\ UNCHANGED <<dirState, files, idx, success_count, total_count,
                   received, flushed, ret, summary, exit_code, calls,
                   returns, nTrue, nFalse, failLogs, ensureCalls,
                   ensureRaised, overwrote, propagated, prior>>

\* response.raise_for_status() raises HTTPError for 4xx and 5xx.
raise_for_status_raises(s) == 400 <= s /\ s < 600

\* line 21: response.raise_for_status()
dl_raise_for_status ==
    /\ pc = "dl_status"
    /\ IF raise_for_status_raises(response[1])
          THEN /\ pc' = "dl_except"
               /\ failedAt' = "status"
          ELSE /\ pc' = "dl_open"
               /\ UNCHANGED failedAt
    /\ UNCHANGED <<dirState, files, idx, success_count, total_count,
                   response, received, flushed, ret, summary, exit_code,
                   calls, returns, nTrue, nFalse, failLogs, ensureCalls,
                   ensureRaised, overwrote, propagated, prior>>

\* line 23: with open(local_path, 'wb') as f -- the filesystem may refuse
\* (OSError), and then the path is left as it was.
dl_open ==
    /\ pc = "dl_open"
    /\ \/ /\ pc' = "dl_except"
          /\ failedAt' = "open"
          /\ UNCHANGED <<files, flushed, overwrote>>
       \/ /\ files' = [files EXCEPT ![local_path] = open_wb(files[local_path])]
          /\ flushed' = 0
          /\ overwrote' = (files[local_path] \notin {Absent, File(<< >>)})
          /\ pc' = "dl_iter"
          /\ UNCHANGED failedAt
    /\ UNCHANGED <<dirState, idx, success_count, total_count, response,
                   received, ret, summary, exit_code, calls, returns, nTrue,
                   nFalse, failLogs, ensureCalls, ensureRaised, propagated,
                   prior>>

\* f is a buffered writer: f.write(chunk) hands the chunk to the buffer, and
\* the buffer reaches the disk when it fills up or when f is closed.  What
\* the disk can hold of the first n chunks handed to f, given what it holds
\* now: <<w, t>> stands for w whole chunks, followed (t) by a part of the
\* next one.  The disk never loses bytes it has.
Flushes(n) ==
    { ft \in (flushed..n) \X BOOLEAN :
        /\ ft[2] => ft[1] < n
        /\ (ft[1] = flushed /\ files[local_path] = Torn) => ft[2] }

\* The file after the disk has taken the chunks up to <<w, t>>: the bytes
\* go behind those the file holds.
flush_to(f, ft) ==
    IF ft[2] THEN Torn
    ELSE IF f = Torn THEN File(SubSeq(received, 1, ft[1]))
    ELSE File(Content(f) \o SubSeq(received, flushed + 1, ft[1]))

\* An exception inside the with block leaves it through f.close(), which
\* flushes what it can; the exception (or the one of the failing close)
\* reaches line 29.
dl_raise_in_with(kind, reach) ==
    \E ft \in reach :
        /\ files' = [files EXCEPT ![local_path] = flush_to(@, ft)]
        /\ flushed' = 0
        /\ overwrote' = FALSE
        /\ failedAt' = kind
        /\ pc' = "dl_except"

\* line 24: for chunk in response.iter_content(chunk_size=8192) -- the
\* iterator yields the next chunk, ends, or raises (connection lost).
dl_iter ==
    /\ pc = "dl_iter"
    /\ \/ \E c \in Chunks :
             /\ Len(received) < MaxChunks
             /\ received' = Append(received, c)
             /\ overwrote' = FALSE
             /\ pc' = "dl_write"
             /\ UNCHANGED <<files, flushed, failedAt>>
       \/ /\ pc' = "dl_close"
          /\ overwrote' = FALSE
          /\ UNCHANGED <<files, flushed, received, failedAt>>
       \/ /\ dl_raise_in_with("stream", Flushes(Len(received)))
          /\ UNCHANGED received
    /\ UNCHANGED <<dirState, idx, success_count, total_count, response, ret,
                   summary, exit_code, calls, returns, nTrue, nFalse,
                   failLogs, ensureCalls, ensureRaised, propagated, prior>>

\* line 25: f.write(chunk) takes the chunk, and the disk may take some of
\* what f holds; or it raises (disk full, I/O error), and then the chunk has
\* not reached the disk in full.
dl_write ==
    /\ pc = "dl_write"
    /\ \/ \E ft \in Flushes(Len(received)) :
             /\ files' = [files EXCEPT ![local_path] = flush_to(@, ft)]
             /\ flushed' = ft[1]
             /\ pc' = "dl_iter"
             /\ UNCHANGED <<failedAt, overwrote>>
       \/ dl_raise_in_with("write",
                           Flushes(Len(received)) \ {<<Len(received), FALSE>>})
    /\ UNCHANGED <<dirState, idx, success_count, total_count, response, ret,
                   summary, exit_code, calls, returns, nTrue, nFalse,
                   failLogs, ensureCalls, ensureRaised, propagated, prior,
                   received>>

\* lines 23-25, the end of the with block: f.close() flushes the buffer and
\* closes the file; it raises when the disk refuses the data or the close.
dl_close ==
    /\ pc = "dl_close"
    /\ \/ /\ files' = [files EXCEPT ![local_path] =
                          flush_to(@, <<Len(received), FALSE>>)]
          /\ flushed' = Len(received)
          /\ pc' = "dl_saved"
          /\ UNCHANGED <<failedAt, overwrote>>
       \/ dl_raise_in_with("close", Flushes(Len(received)))
    /\ UNCHANGED <<dirState, idx, success_count, total_count, response, ret,
                   summary, exit_code, calls, returns, nTrue, nFalse,
                   failLogs, ensureCalls, ensureRaised, propagated, prior,
                   received>>

\* lines 27-28: print "Saved to: {local_path}"; return True.  The print is
\* inside the try block: when it raises, the except branch is taken although
\* the file is written and closed.
dl_saved ==
    /\ pc = "dl_saved"
    /\ flushed' = 0
    /\ overwrote' = FALSE
    /\ \/ /\ ret' = TRUE
          /\ nTrue' = nTrue + 1
          /\ received' = << >>
          /\ pc' = "returned"
          /\ UNCHANGED failedAt
       \/ /\ failedAt' = "print_saved"
          /\ pc' = "dl_except"
          /\ UNCHANGED <<ret, nTrue, received>>
    /\ UNCHANGED <<dirState, files, idx, success_count, total_count,
                   response, summary, exit_code, calls, returns, nFalse,
                   failLogs, ensureCalls, ensureRaised, propagated, prior>>

\* Variant of dl_except: the except branch logs and returns True.
dl_except_returns_true ==
    /\ pc = "dl_except"
    /\ received' = << >>
    /\ \/ /\ failLogs' = failLogs + 1
          /\ ret' = TRUE
          /\ nTrue' = nTrue + 1
          /\ pc' = "returned"
          /\ UNCHANGED <<exit_code, propagated, response, nFalse, failedAt>>
       \/ /\ uncaught("download_image")
          /\ \E text_written \in BOOLEAN :
                failLogs' = IF text_written THEN failLogs + 1 ELSE failLogs
          /\ response' = << >>
          /\ failedAt' = "none"
          /\ UNCHANGED <<ret, nFalse, nTrue>>
    /\ UNCHANGED <<dirState, files, idx, success_count, total_count,
                   flushed, summary, calls, returns, ensureCalls,
                   ensureRaised, overwrote, prior>>

\* lines 29-31: except Exception as e: print "Failed to download {url}: {e}";
\* return False.  The print is in the handler, where nothing catches: when
\* it raises, with the text written in full (the end of line was refused)
\* or not, the exception leaves download_image and, main catching nothing,
\* ends the process.
dl_except ==
    /\ pc = "dl_except"
    /\ received' = << >>
    /\ \/ /\ failLogs' = failLogs + 1
          /\ ret' = FALSE
          /\ nFalse' = nFalse + 1
          /\ pc' = "returned"
          /\ UNCHANGED <<exit_code, propagated, response, failedAt>>
       \/ /\ uncaught("download_image")
          /\ \E text_written \in BOOLEAN :
                failLogs' = IF text_written THEN failLogs + 1 ELSE failLogs
          /\ response' = << >>
          /\ failedAt' = "none"
          /\ UNCHANGED <<ret, nFalse>>
    /\ UNCHANGED <<dirState, files, idx, success_count, total_count,
                   flushed, summary, calls, returns, nTrue, ensureCalls,
                   ensureRaised, overwrote, prior>>

(* ------------------------------ the runs ------------------------------ *)

\* lines 89-90: the script is started again; the filesystem is what the
\* previous run left, everything else starts afresh.
run_again ==
    /\ pc \in {"done", "crashed"}
    /\ pc' = "ensure"
    /\ prior' = TRUE
    /\ idx' = 1
    /\ success_count' = 0
    /\ total_count' = 0
    /\ response' = << >>
    /\ received' = << >>
    /\ flushed' = 0
    /\ ret' = FALSE
    /\ summary' = << >>
    /\ exit_code' = << >>
    /\ calls' = << >>
    /\ returns' = 0
    /\ nTrue' = 0
    /\ nFalse' = 0
    /\ failLogs' = 0
    /\ ensureCalls' = 0
    /\ ensureRaised' = FALSE
    /\ failedAt' = "none"
    /\ overwrote' = FALSE
    /\ propagated' = "none"
    /\ UNCHANGED <<dirState, files>>

\* The state when main() is entered for the first time: nothing has been
\* downloaded yet, the destination path is in any of its states.
Init ==
    /\ pc = "ensure"
    /\ dirState \in DirStates
    /\ files = [p \in Paths |-> Absent]
    /\ idx = 1
    /\ success_count = 0
    /\ total_count = 0
    /\ response = << >>
    /\ received = << >>
    /\ flushed = 0
    /\ ret = FALSE
    /\ summary = << >>
    /\ exit_code = << >>
    /\ calls = << >>
    /\ returns = 0
    /\ nTrue = 0
    /\ nFalse = 0
    /\ failLogs = 0
    /\ ensureCalls = 0
    /\ ensureRaised = FALSE
    /\ failedAt = "none"
    /\ overwrote = FALSE
    /\ propagated = "none"
    /\ prior = FALSE

Next ==
    \/ ensure_directory
    \/ main_setup
    \/ main_for_next
    \/ main_for_end
    \/ main_count
    \/ main_summary
    \/ main_exit
    \/ dl_get
    \/ dl_raise_for_status
    \/ dl_open
    \/ dl_iter
    \/ dl_write
    \/ dl_close
    \/ dl_saved
    \/ dl_except
    \/ run_again

Spec == Init /\ [][Next]_vars


(* ----------------------------- properties ----------------------------- *)

InCall == pc \in {"dl_get", "dl_status", "dl_open", "dl_iter", "dl_write",
                  "dl_close", "dl_saved", "dl_except", "returned"}

Exists(p) == files[p] /= Absent

NumImages == Len(images_to_download)

\* C1: a run that has printed the summary ends with status 0 exactly when
\* every download_image call returned True, and with status 1 exactly when
\* at least one returned False.
ExitCodeIffAllSucceeded ==
    (summary /= << >> /\ exit_code /= << >>) =>
        /\ nTrue + nFalse = Len(calls)
        /\ (exit_code = <<0>>) <=> (nFalse = 0)
        /\ (exit_code = <<1>>) <=> (nFalse >= 1)

\* C2: a failed download does not abort the run: download_image is still
\* invoked for every later descriptor, and each failure is logged before
\* the next descriptor is started.
FailureDoesNotAbort ==
    /\ (exit_code /= << >> /\ (nFalse >= 1 \/ propagated = "download_image")) =>
          /\ Len(calls) = NumImages
          /\ \A i \in 1..NumImages : calls[i] = i
    /\ pc \in {"loop", "dl_get"} => failLogs = nFalse
    /\ pc \in {"loop", "dl_get"} => nFalse = returns - nTrue

\* C3: the summary main prints reports success_count/total_count,
\* total_count being the length of the list and success_count the number of
\* calls that returned True; a run in which all N succeed prints N/N; a
\* first run in which every descriptor but the last succeeds and the last
\* is answered 404 prints (N-1)/N, writes exactly N-1 files and exits with
\* status 1.
SummaryCounts ==
    /\ summary /= << >> => summary = <<nTrue, NumImages>>
    /\ (exit_code /= << >> /\ nTrue = NumImages) =>
          summary = <<NumImages, NumImages>>
    /\ ( /\ exit_code /= << >>
         /\ ~prior
         /\ returns = NumImages
         /\ nTrue = NumImages - 1
         /\ response = <<404>> ) =>
          /\ summary = <<NumImages - 1, NumImages>>
          /\ Cardinality({p \in Paths : Exists(p)}) = NumImages - 1
          /\ exit_code = <<1>>

\* C4 as stated: after a run that ended with status 0, every descriptor's
\* file exists and is non-empty.
NonEmptyAfterSuccess ==
    (pc = "done" /\ exit_code = <<0>>) =>
        \A i \in 1..NumImages :
            /\ Exists(images_to_download[i].local_path)
            /\ Content(files[images_to_download[i].local_path]) /= << >>

\* C4 (amended): after a run that ended with status 0, every descriptor's
\* file exists; a saved file is empty exactly when the response body had no
\* chunk.
FileExistsAfterSuccess ==
    /\ (pc = "done" /\ exit_code = <<0>>) =>
          \A i \in 1..NumImages : Exists(images_to_download[i].local_path)
    /\ pc = "dl_saved" =>
          /\ Exists(local_path)
          /\ (Content(files[local_path]) = << >>) <=> (received = << >>)

\* A run ended with status 0 and left an empty file.
SuccessWithEmptyFile ==
    /\ pc = "done"
    /\ exit_code = <<0>>
    /\ \E i \in 1..NumImages :
          files[images_to_download[i].local_path] = File(<< >>)

\* C5: download_image never lets an exception reach main: whatever fails,
\* it logs and returns False; it returns True only after the status check
\* passed and every chunk received was written to local_path.
DownloadImageNeverRaises ==
    /\ propagated /= "download_image"
    /\ (pc = "returned" /\ failedAt /= "none") =>
          /\ ret = FALSE
          /\ failLogs = nFalse
    /\ (pc = "returned" /\ ret) =>
          /\ failedAt = "none"
          /\ response /= << >>
          /\ ~raise_for_status_raises(response[1])
          /\ files[local_path] \notin {Absent, Torn}
    /\ pc = "dl_saved" =>
          /\ flushed = Len(received)
          /\ files[local_path] = File(received)
    /\ (pc = "returned" /\ ~ret) => failedAt /= "none"

\* C6: ensure_directory is called once and has completed before the first
\* download_image call; download_image is invoked once per descriptor, in
\* list order, each call returning before the next starts.
SequentialOrder ==
    /\ ensureCalls <= 1
    /\ calls /= << >> => (ensureCalls = 1 /\ pc /= "ensure")
    /\ Len(calls) <= NumImages
    /\ \A i \in 1..Len(calls) : calls[i] = i
    /\ IF InCall /\ pc /= "returned"
          THEN returns = Len(calls) - 1 /\ nTrue + nFalse = returns
          ELSE IF pc = "returned"
                  THEN returns = Len(calls) - 1 /\ nTrue + nFalse = Len(calls)
                  ELSE IF propagated = "download_image"
                          THEN returns = Len(calls) - 1
                          ELSE returns = Len(calls)
    /\ pc \in {"summary", "branch", "done"} =>
          (ensureCalls = 1 /\ returns = NumImages)

\* A run completed with every descriptor processed.
RunCompleted ==
    /\ pc = "done"
    /\ ensureCalls = 1
    /\ Len(calls) = NumImages
    /\ returns = NumImages

\* C7: when ensure_directory fails the run ends abnormally: no
\* download_image call, no file written, no summary line.
EnsureFailureIsFatal ==
    /\ ensureRaised =>
          /\ pc = "crashed"
          /\ calls = << >>
          /\ summary = << >>
          /\ \A p \in Paths : ~Exists(p)
          /\ exit_code \notin {<< >>, <<0>>}
    /\ pc \notin {"ensure", "crashed"} => ~makedirs_raises(dirState)

\* ensure_directory raised because a regular file is in the way.
EnsureRaisedOnFile ==
    pc = "crashed" /\ ensureRaised /\ dirState = "file"

\* C8: a later run does not fail because the files exist, and a successful
\* download replaces the whole prior content of local_path with the
\* response body.
OverwriteReplaces ==
    /\ (pc = "dl_iter" /\ overwrote) => files[local_path] = File(<< >>)
    /\ pc = "dl_saved" => files[local_path] = File(received)

\* In a later run the open has just emptied the non-empty file the run
\* before had left.
OpenedOverOldFile ==
    /\ prior
    /\ pc = "dl_iter"
    /\ overwrote
    /\ files[local_path] = File(<< >>)

\* C9: ensure_directory on a directory that already exists does not raise
\* and changes nothing on disk, so a second call has the effect of one.
EnsureDirectoryIdempotent ==
    [][ (pc = "ensure" /\ dirState = "dir") =>
            (pc' = "setup" /\ dirState' = "dir" /\ files' = files) ]_vars

\* ensure_directory has completed in a run that follows a completed run.
SecondEnsureCompleted ==
    /\ prior
    /\ pc = "setup"
    /\ ensureCalls = 1
    /\ ~ensureRaised
    /\ dirState = "dir"

\* C10: when download_image fails at the GET or at the status check, the
\* file at local_path is neither created nor modified: no step from the
\* start of the call up to the open, and no step of a call that failed at
\* the GET or the status check, changes a file.
NoWriteBeforeStatusCheck ==
    [][ ( \/ pc \in {"dl_get", "dl_status"}
          \/ (InCall /\ failedAt \in {"get", "status"}) )
        => files' = files ]_vars

\* A download failed on the status check in a later run, and the two-chunk
\* file of the run before is still there.
StatusFailureKeepsOldFile ==
    /\ prior
    /\ pc = "returned"
    /\ failedAt = "status"
    /\ files[local_path] = File(<<"a", "a">>)

====
